---- MODULE Spec2Model ----
(***************************************************************************)
(* Model of the log emitter (src/emitter/log_emitter.py): the message and  *)
(* packet synthesizers, the transport sender, the startup health probe of  *)
(* main() and the three emission modes (single, burst, continuous).        *)
(*                                                                         *)
(* Conventions.                                                            *)
(*  - Times are whole milliseconds.  Rates and probabilities, floats in    *)
(*    the code, are thousandths (2000 is 2.0 packets/s, 100 is p = 0.1).   *)
(*  - An Optional value is a sequence of length 0 (None) or 1.             *)
(*  - Strings that the code searches (service names) are sequences of      *)
(*    characters, so that `"auth" in service` is a real substring search.  *)
(*  - uuid.uuid4() returns a value never returned before: next_uuid.       *)
(*  - Random draws and the outcomes of HTTP calls are inputs, chosen with  *)
(*    \E.  KeyboardInterrupt is delivered at most once, at one of the      *)
(*    points where the program generates, waits for HTTP or sleeps; what   *)
(*    send_packet does with the result of a POST is one step with the      *)
(*    POST's completion.                                                   *)
(***************************************************************************)
EXTENDS Integers, Sequences, FiniteSets, TLC

VARIABLES
    \* configuration read from the environment by main()
    mode, duration, emission_rate, burst_probability,
    \* control
    pc, exit_status, interrupted, pending_exc, loop_exit,
    \* startup health probe
    attempt, probe_gap, health_ok,
    \* LogEmitter fields
    packets_sent, packets_failed,
    \* locals of run_continuous / send_burst
    elapsed, packets_to_send, i, num_packets,
    \* synthesizers
    packet, message, next_uuid,
    \* what an observer of the process sees (HTTP calls, sleeps, printed reports)
    send_calls, posts_completed, accepted, last_ret, posts,
    burst_waits, is_burst, iter_base, loop_sleeps, last_sleep,
    reports, last_event

vars == <<mode, duration, emission_rate, burst_probability,
          pc, exit_status, interrupted, pending_exc, loop_exit,
          attempt, probe_gap, health_ok,
          packets_sent, packets_failed,
          elapsed, packets_to_send, i, num_packets,
          packet, message, next_uuid,
          send_calls, posts_completed, accepted, last_ret, posts,
          burst_waits, is_burst, iter_base, loop_sleeps, last_sleep,
          reports, last_event>>

-----------------------------------------------------------------------------
(* Bounds of the model *)

\* send_packet calls one run may make
MaxSends == 5
\* largest BURST_SIZE
MaxBurst == 3
\* largest EMISSION_DURATION, seconds
MaxDuration == 1
\* largest |num_messages| passed explicitly to generate_log_packet
MaxCount == 2
\* packets one synthesizer run generates
MaxGen == 2

-----------------------------------------------------------------------------
(* Program constants *)

max_retries == 30
ProbeSleepMs == 2000
MinDelayMs == 100
BurstDelayMs == 100
BurstLow == 3
BurstHigh == 8
AcceptedStatus == 202
HealthyStatus == 200

None == <<>>
Some(x) == <<x>>

Max(a, b) == IF a >= b THEN a ELSE b
Min(a, b) == IF a <= b THEN a ELSE b

applications ==
    << [app |-> "user-service",
        services |-> <<<<"a","u","t","h","e","n","t","i","c","a","t","i","o","n">>,
                      <<"p","r","o","f","i","l","e">>,
                      <<"p","r","e","f","e","r","e","n","c","e","s">>>>],
       [app |-> "payment-service",
        services |-> <<<<"b","i","l","l","i","n","g">>,
                      <<"t","r","a","n","s","a","c","t","i","o","n">>,
                      <<"f","r","a","u","d","-","d","e","t","e","c","t","i","o","n">>>>],
       [app |-> "inventory-service",
        services |-> <<<<"s","t","o","c","k">>,
                      <<"w","a","r","e","h","o","u","s","e">>,
                      <<"s","h","i","p","p","i","n","g">>>>],
       [app |-> "notification-service",
        services |-> <<<<"e","m","a","i","l">>,
                      <<"s","m","s">>,
                      <<"p","u","s","h">>>>],
       [app |-> "analytics-service",
        services |-> <<<<"t","r","a","c","k","i","n","g">>,
                      <<"r","e","p","o","r","t","i","n","g">>,
                      <<"i","n","s","i","g","h","t","s">>>>] >>

log_levels == <<"DEBUG", "INFO", "WARN", "ERROR", "FATAL">>

\* the sizes random.choices draws from; every weight is positive
MessageCounts == {1, 2, 3, 4, 5, 8, 12, 20}

StrAuth == <<"a","u","t","h">>
StrPayment == <<"p","a","y","m","e","n","t">>
StrBilling == <<"b","i","l","l","i","n","g">>

-----------------------------------------------------------------------------
(* Message synthesizer *)

\* Python's `needle in hay` on strings
Contains(needle, hay) ==
    \E s \in 0..(Len(hay) - Len(needle)) :
        SubSeq(hay, s + 1, s + Len(needle)) = needle

NoKeys == [k \in {} |-> "none"]

BaseMetadata ==
    [correlationId |-> "corr-uuid", requestId |-> "req-uuid",
     sessionId |-> "sess-uuid", emitterAgent |-> "agent_id"]

AuthMetadata ==
    [userId |-> "user-n", clientIp |-> "192.168.a.b", userAgent |-> "LogEmitter/1.0"]

PaymentMetadata ==
    [amount |-> "uniform(10,1000)", currency |-> "USD|EUR|GBP", transactionId |-> "txn-uuid"]

ErrorMetadata ==
    [errorCode |-> "SERVICE_nnn", stackTrace |-> "at com.resolveai"]

\* a plausible slip: the error branch written as a separate `if`
ServiceMetadataIndependentIf(service, level) ==
    (IF level \in {"ERROR", "FATAL"} THEN ErrorMetadata ELSE NoKeys)
    @@ (IF Contains(StrAuth, service) THEN AuthMetadata
        ELSE IF Contains(StrPayment, service) \/ Contains(StrBilling, service)
             THEN PaymentMetadata
             ELSE NoKeys)

\* the if / elif / elif chain: the dictionary passed to metadata.update
ServiceMetadata(service, level) ==
    IF Contains(StrAuth, service) THEN AuthMetadata
    ELSE IF Contains(StrPayment, service) \/ Contains(StrBilling, service)
         THEN PaymentMetadata
         ELSE IF level \in {"ERROR", "FATAL"} THEN ErrorMetadata
              ELSE NoKeys

\* level and service_idx are the draws of random.choices / random.choice;
\* instance, host and the message text are drawn values no branch reads
generate_log_message(app_config, level, service_idx) ==
    LET service == app_config.services[service_idx]
        metadata == ServiceMetadata(service, level) @@ BaseMetadata
    IN  [level |-> level,
         source |-> [application |-> app_config.app, service |-> service],
         metadata |-> metadata]

-----------------------------------------------------------------------------
(* Packet synthesizer *)

\* One message's draws: primary is `random.random() < 0.8`, other the
\* application drawn when it is false.
Draw(primary, other, level, service_idx) ==
    [primary |-> primary, other |-> other, level |-> level, service_idx |-> service_idx]

SampleDraws ==
    { Draw(TRUE, 1, "INFO", 1), Draw(FALSE, 2, "ERROR", 1), Draw(FALSE, 4, "FATAL", 3) }

\* the draws of a whole packet: d1 for the first message, d2 for the others
DrawsOf(d1, d2) == [j \in Nat |-> IF j = 1 THEN d1 ELSE d2]

\* num_messages_arg: the caller's argument (None when absent); count_draw: the
\* size random.choices returns; range(n) is empty for n <= 0, as 1..n is.
generate_log_packet(num_messages_arg, count_draw, app_idx, draws, uuid) ==
    LET num_messages == IF num_messages_arg = None THEN count_draw
                        ELSE num_messages_arg[1]
        app_config == applications[app_idx]
        messages == [j \in 1..num_messages |->
                        IF draws[j].primary
                        THEN generate_log_message(app_config, draws[j].level,
                                                  draws[j].service_idx)
                        ELSE generate_log_message(applications[draws[j].other],
                                                  draws[j].level, draws[j].service_idx)]
    IN  [packetId |-> uuid,
         agentId |-> "agent_id",
         totalMessages |-> num_messages,
         messages |-> messages]

-----------------------------------------------------------------------------
(* HTTP outcomes and the transport sender *)

Response(status) == [kind |-> "response", status |-> status, exc |-> "none"]
Raised(exc) == [kind |-> "raise", status |-> 0, exc |-> exc]

\* requests.exceptions: the classes derived from RequestException
IsRequestException(exc) == exc \in {"ConnectionError", "Timeout"}

PostOutcomes ==
    { Response(202), Response(200), Response(500),
      Raised("ConnectionError"), Raised("Timeout") }

HealthOutcomes == { Response(200), Response(503), Raised("ConnectionError") }

\* time one POST takes, at most the 10 s timeout
PostDurations == {0, 500}

\* a plausible bug: a bare `except:` around the POST
SendPacketCatchesAll(exc) == TRUE

\* `except RequestException`
SendPacketCatches(exc) == IsRequestException(exc)

Effect(sent, failed, ret, raises) ==
    [sent |-> sent, failed |-> failed, ret |-> ret, raises |-> raises]

\* a plausible bug: the failure counter forgotten in the HTTP-error branch
send_packet_uncounted_http_error(outcome) ==
    IF outcome.kind = "response"
    THEN IF outcome.status = AcceptedStatus
         THEN Effect(1, 0, Some(TRUE), "none")
         ELSE Effect(0, 0, Some(FALSE), "none")
    ELSE IF SendPacketCatches(outcome.exc)
         THEN Effect(0, 1, Some(FALSE), "none")
         ELSE Effect(0, 0, None, outcome.exc)

\* What one call does once requests.post has ended with `outcome`: the
\* increments of packets_sent / packets_failed, the value returned (None when
\* an exception leaves the call) and the exception that leaves it.
send_packet(outcome) ==
    IF outcome.kind = "response"
    THEN IF outcome.status = AcceptedStatus
         THEN Effect(1, 0, Some(TRUE), "none")
         ELSE Effect(0, 1, Some(FALSE), "none")
    ELSE IF SendPacketCatches(outcome.exc)
         THEN Effect(0, 1, Some(FALSE), "none")
         ELSE Effect(0, 0, None, outcome.exc)

\* success_rate of print_stats, in hundredths of a percent
SuccessRate(sent, failed) ==
    LET total == sent + failed
    IN  IF total > 0 THEN (sent * 10000) \div total ELSE 0

print_stats == [sent |-> packets_sent, failed |-> packets_failed,
                success_rate |-> SuccessRate(packets_sent, packets_failed)]

-----------------------------------------------------------------------------
(* Configuration *)

Modes == {"continuous", "burst", "single", "other"}
DurationInputs == {-1} \cup 0..MaxDuration
RateInputs == {-1000, 0, 2000}
ProbabilityInputs == {0, 100}
\* values of random.random(), thousandths
RandomDraws == {50, 500}

\* int(os.getenv("EMISSION_DURATION", "0")) or None
DurationOf(raw) == IF raw = 0 THEN None ELSE Some(raw)

\* `duration and (time.time() - start_time) > duration`
DurationReached(d, el) == d # None /\ d[1] # 0 /\ el > d[1] * 1000

\* elapsed is only ever compared with the duration: it stops one millisecond
\* past it (at 0 when there is no duration)
Horizon == IF duration = None THEN 0 ELSE Max(duration[1] * 1000, 0) + 1
Advance(dt) == Min(elapsed + dt, Horizon)

\* (1.0 / emission_rate) / packets_to_send, for a rate that is not 0
Delay(rate, k) ==
    IF rate > 0 THEN 1000000 \div (rate * k)
    ELSE 0 - (1000000 \div ((0 - rate) * k))

\* the argument of time.sleep in the loop
SleepArg(rate, k) == Max(MinDelayMs, Delay(rate, k))

\* a plausible bug: the wait inserted after every failure, the last included
BurstShouldSleepAfterLast(success, idx, n) == ~success

\* `not success and i < num_packets - 1`
BurstShouldSleep(success, idx, n) == ~success /\ idx < n - 1

\* a plausible bug: a failed send ends the iteration
LoopAfterSendAbortOnFailure(success, idx, k) ==
    IF success /\ idx + 1 < k THEN "gen" ELSE "delay"

\* `for _ in range(packets_to_send)`: the position after the send of index idx
LoopAfterSend(success, idx, k) == IF idx + 1 < k THEN "gen" ELSE "delay"

-----------------------------------------------------------------------------
(* Initial state: main() has read its configuration and built the emitter *)

Fresh(p) ==
    /\ pc = p
    /\ exit_status = "running" /\ interrupted = "none"
    /\ pending_exc = "none" /\ loop_exit = "none"
    /\ attempt = 0 /\ probe_gap = 0 /\ health_ok = FALSE
    /\ packets_sent = 0 /\ packets_failed = 0
    /\ elapsed = 0 /\ packets_to_send = 0 /\ i = 0 /\ num_packets = 0
    /\ packet = None /\ message = None /\ next_uuid = 1
    /\ send_calls = 0 /\ posts_completed = 0 /\ accepted = 0
    /\ last_ret = None /\ posts = <<>>
    /\ burst_waits = 0 /\ is_burst = FALSE /\ iter_base = 0
    /\ loop_sleeps = 0 /\ last_sleep = 0
    /\ reports = <<>> /\ last_event = "init"

Init ==
    /\ mode \in Modes
    /\ duration \in {DurationOf(raw) : raw \in DurationInputs}
    /\ emission_rate \in RateInputs
    /\ burst_probability \in ProbabilityInputs
    /\ Fresh("probe")

config == <<mode, duration, emission_rate, burst_probability>>
probe_vars == <<attempt, probe_gap, health_ok>>
counters == <<packets_sent, packets_failed>>
loop_vars == <<packets_to_send, i, num_packets, is_burst, iter_base>>
synth_vars == <<packet, message, next_uuid>>
http_vars == <<send_calls, posts_completed, accepted, last_ret, posts>>
\* loop_sleeps: the sleeps of run_continuous since the last burst draw;
\* last_sleep: the argument of the time.sleep in progress (0 when none is)
sleep_vars == <<burst_waits, loop_sleeps, last_sleep>>

-----------------------------------------------------------------------------
(* Exceptions *)

control == <<pc, exit_status, pending_exc, loop_exit, last_event>>

\* the statements of run_continuous inside its try block
InTry == mode = "continuous" /\ pc \in {"check", "gen", "post", "delay", "sleep"}

\* `exc` is raised at the current position.  Inside the try block of
\* run_continuous KeyboardInterrupt is caught ("stopped by user") and anything
\* else stays pending, and `finally` prints the statistics; anywhere else
\* nothing catches it and the interpreter ends with a traceback.
Propagate(exc) ==
    IF InTry
    THEN /\ pc' = "stats"
         /\ loop_exit' = IF exc = "KeyboardInterrupt" THEN "interrupt" ELSE "error"
         /\ pending_exc' = IF exc = "KeyboardInterrupt" THEN "none" ELSE exc
         /\ last_event' = IF exc = "KeyboardInterrupt" THEN "stopped" ELSE last_event
         /\ UNCHANGED exit_status
    ELSE /\ pc' = "exited"
         /\ exit_status' = "traceback"
         /\ pending_exc' = exc
         /\ last_event' = "traceback"
         /\ UNCHANGED loop_exit

-----------------------------------------------------------------------------
(* main(): the startup health probe *)

\* One requests.get of `for attempt in range(max_retries)`.
ProbeGet ==
    /\ pc = "probe"
    /\ \E outcome \in HealthOutcomes :
          IF outcome.kind = "response"
             THEN IF outcome.status = HealthyStatus
                  THEN \* break
                       /\ health_ok' = TRUE
                       /\ pc' = "dispatch"
                       /\ attempt' = 0 /\ probe_gap' = 0
                       /\ UNCHANGED <<exit_status, last_event>>
                  ELSE \* no exception: the next attempt follows at once,
                       \* and the statements after the loop when it was the last
                       /\ pc' = IF attempt + 1 < max_retries THEN "probe" ELSE "dispatch"
                       /\ attempt' = IF attempt + 1 < max_retries THEN attempt + 1 ELSE 0
                       /\ probe_gap' = 0
                       /\ UNCHANGED <<health_ok, exit_status, last_event>>
             ELSE IF attempt < max_retries - 1
                  THEN /\ pc' = "probe_sleep"
                       /\ UNCHANGED <<attempt, probe_gap, health_ok, exit_status, last_event>>
                  ELSE \* sys.exit(1)
                       /\ pc' = "exited"
                       /\ exit_status' = "exit1"
                       /\ last_event' = "exit1"
                       /\ UNCHANGED <<attempt, probe_gap, health_ok>>
    /\ UNCHANGED <<config, interrupted, pending_exc, loop_exit, counters, elapsed,
                   loop_vars, synth_vars, http_vars, sleep_vars, reports>>

\* time.sleep(2) after a failed attempt that was not the last
ProbeSleep ==
    /\ pc = "probe_sleep"
    /\ probe_gap' = ProbeSleepMs
    /\ attempt' = attempt + 1
    /\ pc' = "probe"
    /\ UNCHANGED <<config, exit_status, interrupted, pending_exc, loop_exit,
                   health_ok, counters, elapsed, loop_vars, synth_vars, http_vars,
                   sleep_vars, reports, last_event>>

-----------------------------------------------------------------------------
(* main(): the mode *)

RunContinuous ==
    /\ pc = "dispatch" /\ mode = "continuous"
    /\ pc' = "check"
    /\ elapsed' = 0
    /\ UNCHANGED <<config, exit_status, interrupted, pending_exc, loop_exit, probe_vars,
                   counters, loop_vars, synth_vars, http_vars, sleep_vars, reports,
                   last_event>>

\* BURST_SIZE is read here
RunBurst ==
    /\ pc = "dispatch" /\ mode = "burst"
    /\ \E burst_size \in 0..MaxBurst :
          /\ num_packets' = burst_size
          /\ i' = 0
          /\ pc' = IF burst_size > 0 THEN "gen" ELSE "stats"
    /\ UNCHANGED <<config, exit_status, interrupted, pending_exc, loop_exit, probe_vars,
                   counters, elapsed, packets_to_send, is_burst, iter_base,
                   synth_vars, http_vars, sleep_vars, reports, last_event>>

RunSingle ==
    /\ pc = "dispatch" /\ mode = "single"
    /\ pc' = "gen"
    /\ UNCHANGED <<config, exit_status, interrupted, pending_exc, loop_exit, probe_vars,
                   counters, elapsed, loop_vars, synth_vars, http_vars, sleep_vars,
                   reports, last_event>>

\* "Unknown emission mode": sys.exit(1)
UnknownMode ==
    /\ pc = "dispatch" /\ mode \notin {"continuous", "burst", "single"}
    /\ pc' = "exited"
    /\ exit_status' = "exit1"
    /\ last_event' = "exit1"
    /\ UNCHANGED <<config, interrupted, pending_exc, loop_exit, probe_vars, counters,
                   elapsed, loop_vars, synth_vars, http_vars, sleep_vars, reports>>

-----------------------------------------------------------------------------
(* Generating and sending one packet (all modes) *)

\* sizes, applications and message draws the emission modes are checked with
RunCounts == {1, 20}
RunApps == {2}

\* emitter.generate_log_packet() followed by the call of send_packet, which
\* issues the POST
Generate ==
    /\ pc = "gen"
    /\ send_calls < MaxSends
    /\ \E count \in RunCounts, app_idx \in RunApps, d \in SampleDraws :
          packet' = Some(generate_log_packet(None, count, app_idx, DrawsOf(d, d),
                                             next_uuid))
    /\ next_uuid' = next_uuid + 1
    /\ send_calls' = send_calls + 1
    /\ posts' = Append(posts, packet'[1].packetId)
    /\ pc' = "post"
    /\ last_event' = "post"
    /\ UNCHANGED <<config, exit_status, interrupted, pending_exc, loop_exit, probe_vars,
                   counters, elapsed, loop_vars, message, posts_completed, accepted,
                   last_ret, sleep_vars, reports>>

\* requests.post ends with `outcome` after dt milliseconds: the rest of
\* send_packet, then the caller's next statement.
SendEnds(outcome, dt) ==
    LET effect == send_packet(outcome)
    IN  /\ packets_sent' = packets_sent + effect.sent
        /\ packets_failed' = packets_failed + effect.failed
        /\ last_ret' = effect.ret
        /\ packet' = None
        /\ elapsed' = IF mode = "continuous" THEN Advance(dt) ELSE elapsed
        /\ IF effect.raises # "none"
           THEN /\ Propagate(effect.raises)
                /\ UNCHANGED <<i, burst_waits, last_sleep>>
           ELSE /\ UNCHANGED <<exit_status, pending_exc, loop_exit>>
                /\ last_event' = "send_line"
                /\ IF mode = "continuous"
                   THEN /\ pc' = LoopAfterSend(effect.ret[1], i, packets_to_send)
                        /\ i' = i + 1
                        /\ UNCHANGED <<burst_waits, last_sleep>>
                   ELSE IF mode = "burst"
                   THEN IF BurstShouldSleep(effect.ret[1], i, num_packets)
                        THEN /\ pc' = "burst_sleep"
                             /\ burst_waits' = burst_waits + 1
                             /\ last_sleep' = BurstDelayMs
                             /\ UNCHANGED i
                        ELSE /\ pc' = IF i + 1 < num_packets THEN "gen" ELSE "stats"
                             /\ i' = i + 1
                             /\ UNCHANGED <<burst_waits, last_sleep>>
                   ELSE /\ pc' = "stats"
                        /\ UNCHANGED <<i, burst_waits, last_sleep>>

\* the POST of send_packet completes: a response or a transport error
SendReturn ==
    /\ pc = "post"
    /\ \E outcome \in PostOutcomes, dt \in PostDurations :
          /\ SendEnds(outcome, dt)
          /\ posts_completed' = posts_completed + 1
          /\ accepted' = IF outcome.kind = "response" /\ outcome.status = 202
                         THEN accepted + 1 ELSE accepted
    /\ UNCHANGED <<config, interrupted, probe_vars, packets_to_send, num_packets,
                   is_burst, iter_base, message, next_uuid, send_calls,
                   posts, loop_sleeps, reports>>

\* the sleep of send_burst ends; the for loop goes on
BurstWake ==
    /\ pc = "burst_sleep"
    /\ last_sleep' = 0
    /\ i' = i + 1
    /\ pc' = IF i + 1 < num_packets THEN "gen" ELSE "stats"
    /\ last_event' = "sleep"
    /\ UNCHANGED <<config, exit_status, interrupted, pending_exc, loop_exit, probe_vars,
                   counters, elapsed, packets_to_send, num_packets, is_burst, iter_base,
                   synth_vars, http_vars, burst_waits, loop_sleeps, reports>>

-----------------------------------------------------------------------------
(* run_continuous *)

\* `if duration and (time.time() - start_time) > duration: break`
LoopBreak ==
    /\ pc = "check"
    /\ DurationReached(duration, elapsed)
    /\ pc' = "stats"
    /\ loop_exit' = "duration"
    /\ UNCHANGED <<config, exit_status, interrupted, pending_exc, probe_vars, counters,
                   elapsed, loop_vars, synth_vars, http_vars, sleep_vars, reports,
                   last_event>>

\* the burst draw of an iteration
LoopDraw ==
    /\ pc = "check"
    /\ ~DurationReached(duration, elapsed)
    /\ \E r \in RandomDraws, size \in BurstLow..BurstHigh :
          /\ is_burst' = (r < burst_probability)
          /\ packets_to_send' = IF r < burst_probability THEN size ELSE 1
    /\ i' = 0
    /\ iter_base' = send_calls
    /\ loop_sleeps' = 0
    /\ pc' = "gen"
    /\ UNCHANGED <<config, exit_status, interrupted, pending_exc, loop_exit, probe_vars,
                   counters, elapsed, num_packets, synth_vars, http_vars, burst_waits,
                   last_sleep, reports, last_event>>

\* `delay = (1.0 / self.emission_rate) / packets_to_send`, then the call of
\* time.sleep(max(0.1, delay))
LoopDelay ==
    /\ pc = "delay"
    /\ IF emission_rate = 0
       THEN /\ Propagate("ZeroDivisionError")
            /\ UNCHANGED <<loop_sleeps, last_sleep>>
       ELSE /\ last_sleep' = SleepArg(emission_rate, packets_to_send)
            /\ loop_sleeps' = loop_sleeps + 1
            /\ pc' = "sleep"
            /\ last_event' = "sleep"
            /\ UNCHANGED <<exit_status, pending_exc, loop_exit>>
    /\ UNCHANGED <<config, interrupted, probe_vars, counters, elapsed, loop_vars,
                   synth_vars, http_vars, burst_waits, reports>>

\* time.sleep returns
LoopWake ==
    /\ pc = "sleep"
    /\ elapsed' = Advance(last_sleep)
    /\ last_sleep' = 0
    /\ pc' = "check"
    /\ UNCHANGED <<config, exit_status, interrupted, pending_exc, loop_exit, probe_vars,
                   counters, loop_vars, synth_vars, http_vars, burst_waits, loop_sleeps,
                   reports, last_event>>

-----------------------------------------------------------------------------
(* print_stats and the end of the process *)

\* print_stats() as the last statement of the mode (in run_continuous, the
\* finally clause; a pending exception then leaves main)
Stats ==
    /\ pc = "stats"
    /\ reports' = Append(reports, print_stats)
    /\ pc' = "exited"
    /\ exit_status' = IF pending_exc = "none" THEN "ok" ELSE "traceback"
    /\ last_event' = IF pending_exc = "none" THEN "stats" ELSE "traceback"
    /\ UNCHANGED <<config, interrupted, pending_exc, loop_exit, probe_vars, counters,
                   elapsed, loop_vars, synth_vars, http_vars, sleep_vars>>

-----------------------------------------------------------------------------
(* The operator's interrupt *)

InterruptPoints ==
    {"probe", "probe_sleep", "dispatch", "check", "gen", "post", "delay", "sleep",
     "burst_sleep"}

\* SIGINT: KeyboardInterrupt is raised at the current position (interrupted
\* records it).  During the POST it is raised inside send_packet's try block.
Interrupt ==
    /\ interrupted = "none"
    /\ pc \in InterruptPoints
    /\ interrupted' = pc
    /\ IF pc = "post"
       THEN /\ SendEnds(Raised("KeyboardInterrupt"), 0)
            /\ UNCHANGED <<posts_completed, accepted>>
       ELSE /\ Propagate("KeyboardInterrupt")
            /\ UNCHANGED <<counters, elapsed, i, packet, posts_completed, accepted,
                           last_ret, burst_waits, last_sleep>>
    /\ UNCHANGED <<config, probe_vars, packets_to_send, num_packets, is_burst, iter_base,
                   message, next_uuid, send_calls, posts, loop_sleeps,
                   reports>>

Next ==
    \/ ProbeGet \/ ProbeSleep
    \/ RunContinuous \/ RunBurst \/ RunSingle \/ UnknownMode
    \/ Generate \/ SendReturn \/ BurstWake
    \/ LoopBreak \/ LoopDraw \/ LoopDelay \/ LoopWake
    \/ Stats
    \/ Interrupt

Spec == Init /\ [][Next]_vars

-----------------------------------------------------------------------------
(* The synthesizers on their own: one message for any service and level of   *)
(* the catalog, or up to MaxGen packets in a row with default or explicit    *)
(* message counts                                                            *)

GenInit ==
    /\ mode = "synth" /\ duration = None
    /\ emission_rate = 1000 /\ burst_probability = 100
    /\ Fresh("synth")

not_synth == <<config, control, interrupted, probe_vars, counters, elapsed, loop_vars,
               http_vars, sleep_vars, reports>>

\* generate_log_message(app_config) for any application, service and level
SynthMessage ==
    /\ pc = "synth"
    /\ message = None /\ packet = None
    /\ \E a \in 1..Len(applications), lv \in 1..Len(log_levels) :
          \E sv \in 1..Len(applications[a].services) :
             message' = Some(generate_log_message(applications[a], log_levels[lv], sv))
    /\ UNCHANGED <<not_synth, packet, next_uuid>>

\* generate_log_packet() with the default size distribution
SynthPacket ==
    /\ pc = "synth"
    /\ message = None
    /\ next_uuid <= MaxGen
    /\ \E count \in MessageCounts, a \in 1..Len(applications) :
          \E d1 \in SampleDraws, d2 \in SampleDraws :
             packet' = Some(generate_log_packet(None, count, a, DrawsOf(d1, d2),
                                                next_uuid))
    /\ next_uuid' = next_uuid + 1
    /\ UNCHANGED <<not_synth, message>>

\* generate_log_packet(num_messages) with the count given by the caller
SynthPacketExplicit ==
    /\ pc = "synth"
    /\ message = None
    /\ next_uuid <= MaxGen
    /\ \E n \in (0 - MaxCount)..MaxCount, a \in 1..Len(applications) :
          \E d1 \in SampleDraws, d2 \in SampleDraws :
             packet' = Some(generate_log_packet(Some(n), 1, a, DrawsOf(d1, d2),
                                                next_uuid))
    /\ next_uuid' = next_uuid + 1
    /\ UNCHANGED <<not_synth, message>>

GenNext == SynthMessage \/ SynthPacket \/ SynthPacketExplicit

SpecGen == GenInit /\ [][GenNext]_vars

-----------------------------------------------------------------------------
(* Properties *)

LoopPoints == {"check", "gen", "post", "delay", "sleep"}
EmissionPoints == LoopPoints \cup {"burst_sleep"}

NoDuplicates(seq) == Cardinality({seq[j] : j \in DOMAIN seq}) = Len(seq)

\* C1: every completed POST of send_packet adds exactly 1 to exactly one
\* counter, packets_sent iff the status was 202 and packets_failed otherwise
\* (another status or a transport error); the call returns that boolean and
\* no exception leaves it.  The counters never decrease, change on no other
\* step, and their sum is the number of completed calls.
C1_SendPacketCounts ==
    /\ [](/\ packets_sent + packets_failed = posts_completed
          /\ packets_sent = accepted)
    /\ [][/\ packets_sent' >= packets_sent
          /\ packets_failed' >= packets_failed
          /\ IF posts_completed' = posts_completed + 1
             THEN LET ok == accepted' = accepted + 1
                  IN  /\ packets_sent' = packets_sent + (IF ok THEN 1 ELSE 0)
                      /\ packets_failed' = packets_failed + (IF ok THEN 0 ELSE 1)
                      /\ last_ret' = Some(ok)
                      /\ pending_exc' = "none"
                      /\ exit_status' # "traceback"
             ELSE /\ packets_sent' = packets_sent
                  /\ packets_failed' = packets_failed]_vars

\* C1 witness: three completed calls, one accepted and two failed
C1_Witness ==
    /\ posts_completed = 3 /\ packets_sent = 1 /\ packets_failed = 2
    /\ last_ret = Some(FALSE)

\* C2: send_burst makes exactly num_packets send calls, one per fresh packet,
\* and sleeps after a send iff that send failed and was not the last: a sleep
\* is in progress only after a failed non-final send, every failed non-final
\* send has been followed by one, and at the end the sleeps number the
\* failures among the first num_packets - 1 sends.
C2_BurstWaits ==
    mode = "burst" =>
        /\ send_calls <= num_packets
        /\ NoDuplicates(posts) /\ Len(posts) = send_calls
        /\ pc = "burst_sleep" =>
              /\ last_ret = Some(FALSE)
              /\ send_calls < num_packets
              /\ last_sleep = 100
        /\ pc = "gen" => burst_waits = packets_failed
        /\ (pc = "stats" \/ (pc = "exited" /\ exit_status = "ok")) =>
              /\ send_calls = num_packets
              /\ posts_completed = num_packets
              /\ burst_waits = packets_failed
                               - (IF num_packets > 0 /\ last_ret = Some(FALSE)
                                  THEN 1 ELSE 0)
              /\ (packets_failed = 0 => burst_waits = 0)

\* C2 witness: a burst of three ended, the second and the last send failed,
\* and only the second was followed by a sleep
C2_Witness ==
    /\ mode = "burst" /\ pc = "exited" /\ exit_status = "ok"
    /\ num_packets = 3 /\ packets_failed = 2 /\ last_ret = Some(FALSE)
    /\ burst_waits = 1

\* C3: the health probe is attempted at most 30 times with a 2 second wait
\* between consecutive attempts; a packet is sent only after an attempt
\* returned 200; when no attempt did, the process exits non-zero.
C3_ProbeGatesEmission ==
    /\ attempt < 30
    /\ (pc = "probe" /\ attempt > 0) => probe_gap = 2000
    /\ send_calls > 0 => health_ok
    /\ (pc \notin {"probe", "probe_sleep"} /\ ~health_ok) =>
          (pc = "exited" /\ exit_status \in {"exit1", "traceback"})

C5_LoopEndsOnlyOnDuration ==
    mode = "continuous" =>
        /\ loop_exit \notin {"none", "interrupt"} =>
              /\ duration # None
              /\ elapsed > duration[1] * 1000
        /\ (pc = "gen" /\ send_calls = iter_base /\ duration # None) =>
              elapsed <= Max(duration[1], 0) * 1000
        /\ (pc = "exited" /\ loop_exit # "none") => Len(reports) = 1

\* C6: in single, burst and continuous mode a run that ends by completing, by
\* its duration or by an operator interrupt has printed the statistics exactly
\* once, as its last action, with the current counters and
\* successRate = sent / (sent + failed) * 100, 0 when nothing was attempted.
C6_StatsLast ==
    ( /\ mode \in {"single", "burst", "continuous"}
      /\ pc = "exited"
      /\ (exit_status = "ok" \/ interrupted \in EmissionPoints) ) =>
        /\ Len(reports) = 1
        /\ last_event = "stats"
        /\ reports[1].sent = packets_sent
        /\ reports[1].failed = packets_failed
        /\ reports[1].success_rate =
              (IF packets_sent + packets_failed = 0 THEN 0
               ELSE (packets_sent * 10000) \div (packets_sent + packets_failed))

\* C7: every generated packet has totalMessages = length(messages), for the
\* default sizes and for any count given by the caller, 0 and negative included.
C7_TotalMessages ==
    packet # None => packet[1].totalMessages = Len(packet[1].messages)

BaseKeys == {"correlationId", "requestId", "sessionId", "emitterAgent"}
AuthKeys == {"userId", "clientIp", "userAgent"}
PaymentKeys == {"amount", "currency", "transactionId"}
ErrorKeys == {"errorCode", "stackTrace"}

MetadataRule(m) ==
    LET keys == DOMAIN m.metadata
        auth == Contains(StrAuth, m.source.service)
        pay == \/ Contains(StrPayment, m.source.service)
               \/ Contains(StrBilling, m.source.service)
        err == m.level \in {"ERROR", "FATAL"}
    IN  /\ BaseKeys \subseteq keys
        /\ (keys \ BaseKeys) \in {{}, AuthKeys, PaymentKeys, ErrorKeys}
        /\ (AuthKeys \subseteq keys) <=> auth
        /\ (PaymentKeys \subseteq keys) <=> (~auth /\ pay)
        /\ (ErrorKeys \subseteq keys) <=> (~auth /\ ~pay /\ err)

\* C8: the metadata of every generated message, alone or in a packet, has the
\* four base keys plus the keys of at most one branch, in the priority order
\* auth, then payment or billing, then ERROR or FATAL; keys of two branches
\* never coexist.
C8_MetadataKeys ==
    /\ message # None => MetadataRule(message[1])
    /\ packet # None =>
          \A j \in DOMAIN packet[1].messages : MetadataRule(packet[1].messages[j])

\* C8 witness: an ERROR message of the billing service carries the payment
\* keys and no error keys
C8_Witness ==
    /\ message # None
    /\ message[1].source.service = StrBilling
    /\ message[1].level = "ERROR"
    /\ DOMAIN message[1].metadata = BaseKeys \cup PaymentKeys

\* C9: an iteration of the continuous loop that is not interrupted sends
\* exactly k fresh packets, k = 1 without a burst and 3 <= k <= 8 with one;
\* every packet is POSTed once, whatever the outcomes: a failure is not
\* retried and neither ends the iteration nor the loop.
C9_IterationSends ==
    mode = "continuous" =>
        /\ NoDuplicates(posts) /\ Len(posts) = send_calls
        /\ pc \in {"gen", "post", "delay", "sleep"} =>
              /\ is_burst => packets_to_send \in 3..8
              /\ ~is_burst => packets_to_send = 1
              /\ send_calls - iter_base <= packets_to_send
        /\ pc \in {"delay", "sleep"} =>
              /\ send_calls - iter_base = packets_to_send
              /\ posts_completed = send_calls
              /\ loop_exit = "none"
        /\ (pc = "gen" /\ send_calls > iter_base) =>
              posts_completed = send_calls

\* C9 witness: a burst of three in which every send failed reached the delay
C9_Witness ==
    /\ mode = "continuous" /\ pc = "delay" /\ is_burst
    /\ packets_to_send = 3 /\ send_calls - iter_base = 3
    /\ packets_failed = send_calls

\* C10: between two iterations the loop sleeps exactly once, for
\* max(0.1, (1 / emissionRate) / k) seconds, at least 0.1 s, and computing the
\* delay never fails, whatever the configured rate.
C10_SleepBetweenIterations ==
    mode = "continuous" =>
        /\ pending_exc # "ZeroDivisionError"
        /\ pc = "sleep" =>
              /\ last_sleep >= 100
              /\ \/ last_sleep = 100 /\ emission_rate * packets_to_send * 100 > 1000000
                 \/ last_sleep = 100 /\ emission_rate < 0
                 \/ /\ last_sleep * emission_rate * packets_to_send <= 1000000
                    /\ (last_sleep + 1) * emission_rate * packets_to_send > 1000000
        /\ (pc = "check" /\ send_calls > 0) => loop_sleeps = 1

====
